---- MODULE Spec2Model ----
(***************************************************************************)
(* Model of the VIN decode hook useVinData (src/src/hooks/useVinData.ts):  *)
(* the state of the hook, the debounced dispatch of the lookup, and the    *)
(* asynchronous completion of performFetch (Spec); of deserializeVinData   *)
(* (src/src/utils/vinDataDeserializer.ts) as a function of its argument    *)
(* (SpecNorm); and of the make, model and year fields of VehicleForm       *)
(* (src/src/components/VehicleForm.tsx) (SpecForm); of the authentication  *)
(* provider and the protected routes (src/src/contexts/AuthContext.tsx,    *)
(* src/src/components/ProtectedRoute.tsx) (SpecAuth); of the Vehicles and  *)
(* Clients pages (src/src/pages) alone (SpecPage) and under the provider   *)
(* (SpecApp); of handleImageForOCR of VehicleForm (SpecOcr); and of the    *)
(* ocr-vision function (src/unnamed/part_003) (SpecEdge).                  *)
(*                                                                         *)
(* Strings that the code inspects character by character (the VIN input,   *)
(* the fields of a record of the response) are sequences of one-character  *)
(* strings.  A nullable value is a sequence of length 0 (null / undefined) *)
(* or of length 1 (the value).                                             *)
(***************************************************************************)
EXTENDS Integers, Sequences, FiniteSets, TLC

\* ------------------------------------------------------------------ bounds
\* Largest number of lookups in flight at the same time.
MaxInflight == 2

\* Number of clock steps that make up one settle window.
TicksPerWindow == 2

\* --------------------------------------------------------------- constants
VIN_LENGTH == 17

DEBOUNCE_DELAY == 1000

\* null / undefined, and a present value
Null == <<>>

Some(v) == <<v>>

\* ------------------------------------------------------- string functions
Whitespace == {" ", "\t", "\n"}

LowerCase == <<"a","b","c","d","e","f","g","h","i","j","k","l","m",
               "n","o","p","q","r","s","t","u","v","w","x","y","z">>

UpperCase == <<"A","B","C","D","E","F","G","H","I","J","K","L","M",
               "N","O","P","Q","R","S","T","U","V","W","X","Y","Z">>

Digits == <<"0","1","2","3","4","5","6","7","8","9">>

\* String.prototype.toUpperCase on one character
UpperChar(c) ==
    IF \E i \in 1..Len(LowerCase) : LowerCase[i] = c
    THEN UpperCase[CHOOSE i \in 1..Len(LowerCase) : LowerCase[i] = c]
    ELSE c

toUpperCase(s) == [i \in 1..Len(s) |-> UpperChar(s[i])]

RECURSIVE TrimStart(_)
TrimStart(s) ==
    IF s # <<>> /\ Head(s) \in Whitespace THEN TrimStart(Tail(s)) ELSE s

RECURSIVE TrimEnd(_)
TrimEnd(s) ==
    IF s # <<>> /\ s[Len(s)] \in Whitespace
    THEN TrimEnd(SubSeq(s, 1, Len(s) - 1))
    ELSE s

\* String.prototype.trim
trim(s) == TrimEnd(TrimStart(s))

\* vinToFetch.trim().toUpperCase()
upperCaseVin(raw) == toUpperCase(trim(raw))

IsDigit(c) == \E i \in 1..Len(Digits) : Digits[i] = c

DigitVal(c) == (CHOOSE i \in 1..Len(Digits) : Digits[i] = c) - 1

\* value of the longest prefix of digits of s, continuing from acc
RECURSIVE DigitPrefix(_, _)
DigitPrefix(s, acc) ==
    IF s # <<>> /\ IsDigit(Head(s))
    THEN DigitPrefix(Tail(s), 10 * acc + DigitVal(Head(s)))
    ELSE acc

\* parseInt(s, 10): leading whitespace is skipped, an optional sign is
\* read, then the longest prefix of digits; NaN when there is no digit.
parseInt(s) ==
    LET t    == TrimStart(s)
        neg  == t # <<>> /\ Head(t) = "-"
        body == IF t # <<>> /\ Head(t) \in {"-", "+"} THEN Tail(t) ELSE t
    IN  IF body # <<>> /\ IsDigit(Head(body))
        THEN [isNaN |-> FALSE,
              val |-> IF neg THEN 0 - DigitPrefix(body, 0) ELSE DigitPrefix(body, 0)]
        ELSE [isNaN |-> TRUE, val |-> 0]

\* ------------------------------------------------------------------ inputs
VinA == <<"1","H","G","C","M","8","2","6","3","3","A","0","0","4","3","5","2">>

VinB == <<"J","T","D","K","B","2","0","U","9","7","3","1","2","3","4","5","6">>

\* VinB as typed in lower case with blanks around it
VinBTyped ==
    <<" ","j","t","d","k","b","2","0","u","9","7","3","1","2","3","4","5","6"," ">>

\* 17 characters as typed, 15 once trimmed
Padded15 ==
    <<" ","1","H","G","C","M","8","2","6","3","3","A","0","0","4","3"," ">>

Short == <<"S","H","O","R","T">>

RawInputs == {<<>>, Short, Padded15, VinA, VinBTyped}

\* --------------------------------------------------------------- responses
\* A record of the Results array.  Every field is Null (absent) or Some(text).
Rec(mk, md, yr, code, text) ==
    [Make |-> mk, Model |-> md, ModelYear |-> yr, ErrorCode |-> code, ErrorText |-> text]

RecHonda ==
    Rec(Some(<<"H","O","N","D","A">>), Some(<<"A","C","C","O","R","D">>),
        Some(<<"2","0","0","3">>), Some(<<"0">>), Some(<<>>))

\* text in the year, blanks around the model, a non-zero error code
RecOdd ==
    Rec(Some(<<"T","O","Y","O","T","A">>), Some(<<" ","C","A","M","R","Y"," ">>),
        Some(<<"a","b","c">>), Some(<<"8">>), Some(<<"N","o"," ","d","a","t","a">>))

\* every decoded field empty, error text present
RecNoData ==
    Rec(Some(<<>>), Some(<<>>), Some(<<>>), Some(<<"1","1">>),
        Some(<<"I","n","v","a","l","i","d">>))

\* the empty object {}
RecBlank == Rec(Null, Null, Null, Null, Null)

Records == {RecHonda, RecOdd, RecNoData, RecBlank}

\* The parsed body of a response; Results is Null when the object has no
\* Results member.
Bodies ==
    {Some([Results |-> Null]), Some([Results |-> Some(<<>>)])}
    \cup {Some([Results |-> Some(<<r>>)]) : r \in Records}

\* What the awaited fetch / response.json() of one lookup ends with: a parsed
\* body, or a thrown error with its message (message Null: none at all).
Responses ==
    {[kind |-> "json", body |-> b, message |-> Null] : b \in Bodies}
    \cup {[kind |-> "throw", body |-> Null, message |-> m] :
             m \in {Null, Some("Failed to fetch")}}

NoResponse == [kind |-> "none", body |-> Null, message |-> Null]

\* ------------------------------------------------------------------- state
VARIABLES
    data,        \* useState: DecodedVinData | null
    isLoading,   \* useState: boolean
    error,       \* useState: string | null
    vinToFetch,  \* useState: the raw text last stored by fetchVinData
    timer,       \* the timer of the lodash debounce: Null, or Some([args, remaining])
    inflight,    \* the calls of performFetch awaiting their response, in dispatch order
    mounted,     \* the component that uses the hook is mounted
    sinceSubmit, \* time since the last call of fetchVinData, capped at DEBOUNCE_DELAY
    burst,       \* values dispatched since the current burst of calls began
    windowDispatches, \* lookups dispatched by the settle window last started
    ended,       \* values whose lookup has been answered
    lastEvent    \* the step that led to this state

VARIABLES
    apiResponse, \* deserializeVinData: the argument, Null (null) or Some([Count, Results])
    returned,    \* deserializeVinData: Null before the call, Some(array) after it
    decoded      \* performFetch: Null, or Some(deserialized) of the first record

VARIABLES
    vinData,     \* VehicleForm: the data of the hook as the form has rendered it
    make,        \* VehicleForm useState: text, <<>> when empty
    model,       \* VehicleForm useState: text, <<>> when empty
    year,        \* VehicleForm useState: Null for '', else Some(number)
    formEvent    \* VehicleForm: the handler that ran last

VARIABLES
    auth,        \* AuthProvider useState: [session, user, profile, loading]
    supabase,    \* the auth client and the calls awaiting it: [stored, events,
                 \* profileQueries, signOutPending, getSessionPending, handled]
    page,        \* the Vehicles or Clients page: [route, isModalOpen, editing,
                 \* isSubmitting, error, call, deleting, openedBy, last]
    ocr,         \* VehicleForm OCR: [ocrLoading, ocrError, pending, targetField,
                 \*   outcome, vin, licensePlate]
    edge         \* the ocr-vision function: [key, req, visionCalls, vision,
                 \*   response, stage]

hookVars == <<data, isLoading, error, vinToFetch, timer, inflight, mounted,
              sinceSubmit, burst, windowDispatches, ended, lastEvent>>

normVars == <<apiResponse, returned, decoded>>

formVars == <<vinData, make, model, year, formEvent>>

appVars == <<auth, supabase, page, ocr, edge>>

vars == <<hookVars, normVars, formVars, appVars>>

published == <<data, error, isLoading>>

\* kind: the step; resp, latest: the response and whether it answers the
\* lookup dispatched last; changed: whether a call of fetchVinData stored a
\* new value; prior: whether that call found the timer running, or whether
\* the response found an error already published
Event(k, r, l, c, w) ==
    [kind |-> k, resp |-> r, latest |-> l, changed |-> c, prior |-> w]

Min(a, b) == IF a < b THEN a ELSE b

\* ------------------------------------------------------------ performFetch
\* JavaScript truthiness of a nullable string
Truthy(v) == v # Null /\ v[1] # <<>>

\* variant: a missing first record is replaced by the empty object
FirstResult_DefaultEmpty(body) ==
    IF body = Null THEN Some(RecBlank)
    ELSE IF body[1].Results = Null THEN Some(RecBlank)
    ELSE IF body[1].Results[1] = <<>> THEN Some(RecBlank)
    ELSE Some(body[1].Results[1][1])

\* variant: a first record counts only when its ErrorCode is '0'
FirstResult_GatedOnErrorCode(body) ==
    IF body = Null THEN Null
    ELSE IF body[1].Results = Null THEN Null
    ELSE IF body[1].Results[1] = <<>> THEN Null
    ELSE IF body[1].Results[1][1].ErrorCode # Some(<<"0">>) THEN Null
    ELSE Some(body[1].Results[1][1])

\* rawData?.Results?.[0]
FirstResult(body) ==
    IF body = Null THEN Null
    ELSE IF body[1].Results = Null THEN Null
    ELSE IF body[1].Results[1] = <<>> THEN Null
    ELSE Some(body[1].Results[1][1])

\* variant: the blanks around the text are removed
OrNull_Trimmed(v) == IF Truthy(v) THEN Some(trim(v[1])) ELSE Null

\* x || null
OrNull(v) == IF Truthy(v) THEN v ELSE Null

\* variant: the year is read from a member the record does not have
DeserializeYear_WrongField(results) == Null

\* results.ModelYear ? parseInt(results.ModelYear, 10) : null
DeserializeYear(results) ==
    IF Truthy(results.ModelYear) THEN Some(parseInt(results.ModelYear[1])) ELSE Null

Deserialize(results) ==
    [make  |-> OrNull(results.Make),
     model |-> OrNull(results.Model),
     year  |-> DeserializeYear(results)]

ApiFallback == "VIN not found or data unavailable."

CatchFallback == "Failed to decode VIN."

\* variant: the message of the error is used without a fallback
CatchMessage_NoFallback(message) ==
    IF message # Null THEN message[1] ELSE ""

\* err.message || 'Failed to decode VIN.'
CatchMessage(message) ==
    IF message # Null /\ message[1] # "" THEN message[1] ELSE CatchFallback

\* The error captured by the closure of performFetch.  useCallback has no
\* dependencies, so it is the value of the first render.
closureError == Null

\* variant: the catch block leaves data as it is
DataAfterCatch_Kept == data

\* data after the catch block
DataAfterCatch == Null

\* data after the else branch (no first result)
DataAfterNoResult == Null

\* variant: no finally block, isLoading is left as it is
LoadingAfterFinally_Omitted == isLoading

\* isLoading after the finally block
LoadingAfterFinally == FALSE

\* variant: the finally block is not reached when the fetch has thrown
AfterResponse_NoFinallyOnThrow(resp) ==
    IF resp.kind = "throw"
    THEN [data  |-> DataAfterCatch,
          error |-> IF closureError = Null THEN Some(CatchMessage(resp.message)) ELSE error,
          isLoading |-> isLoading]
    ELSE IF FirstResult(resp.body) # Null
    THEN [data  |-> Some(Deserialize(FirstResult(resp.body)[1])),
          error |-> Null,
          isLoading |-> LoadingAfterFinally]
    ELSE [data  |-> DataAfterNoResult,
          error |-> Some(ApiFallback),
          isLoading |-> LoadingAfterFinally]

\* The published state after the awaited response of performFetch.
AfterResponse(resp) ==
    IF resp.kind = "throw"
    THEN [data  |-> DataAfterCatch,
          error |-> IF closureError = Null THEN Some(CatchMessage(resp.message)) ELSE error,
          isLoading |-> LoadingAfterFinally]
    ELSE IF FirstResult(resp.body) # Null
    THEN [data  |-> Some(Deserialize(FirstResult(resp.body)[1])),
          error |-> Null,
          isLoading |-> LoadingAfterFinally]
    ELSE [data  |-> DataAfterNoResult,
          error |-> Some(ApiFallback),
          isLoading |-> LoadingAfterFinally]

\* ---------------------------------------------------------------- debounce
\* variant: the length of the text as typed is tested
IsValidVin_RawLength(raw) == Len(raw) = VIN_LENGTH

\* the test of the effect on vinToFetch: upperCaseVin.length === VIN_LENGTH
IsValidVin(raw) == Len(upperCaseVin(raw)) = VIN_LENGTH

\* debouncedFetch(args) on an idle debounce: the timer is started for the
\* whole delay and nothing is invoked on the leading edge
debouncedFetch(args) == Some([args |-> args, remaining |-> DEBOUNCE_DELAY])

\* variant: cancel leaves the timer running
cancel_Noop == timer

\* debouncedFetch.cancel()
cancel == Null

\* variant: the timer is started again after it has fired
TimerAfterFire_Rearm(t) == Some([args |-> t[1].args, remaining |-> DEBOUNCE_DELAY])

\* the timer once its trailing edge has invoked performFetch
TimerAfterFire(t) == Null

Pending == timer # Null

Expired == Pending /\ timer[1].remaining = 0

\* the length of one clock step
TickLength == DEBOUNCE_DELAY \div TicksPerWindow

\* --------------------------------------------------------------------- Init
HookInit ==
    /\ data = Null
    /\ isLoading = FALSE
    /\ error = Null
    /\ vinToFetch = <<>>
    /\ timer = Null
    /\ inflight = <<>>
    /\ mounted = TRUE
    /\ sinceSubmit = DEBOUNCE_DELAY
    /\ burst = {}
    /\ windowDispatches = 0
    /\ ended = {}
    /\ lastEvent = Event("mount", NoResponse, FALSE, FALSE, FALSE)

\* deserializeVinData is not called
NormIdle ==
    /\ apiResponse = Null
    /\ returned = Null
    /\ decoded = Null

\* the form as first rendered for a new vehicle
FormIdle ==
    /\ vinData = Null
    /\ make = <<>>
    /\ model = <<>>
    /\ year = Null
    /\ formEvent = "mount"

\* the provider as first rendered, nobody signed in
AuthIdle ==
    /\ auth = [session |-> Null, user |-> Null, profile |-> Null, loading |-> TRUE]
    /\ supabase = [stored |-> Null, events |-> <<>>, profileQueries |-> <<>>,
                   signOutPending |-> FALSE, getSessionPending |-> TRUE,
                   handled |-> "mount"]

\* no page is rendered
PageUnmounted ==
    [route |-> "none", isModalOpen |-> FALSE, editing |-> Null,
     isSubmitting |-> FALSE, error |-> Null, call |-> Null, deleting |-> FALSE,
     openedBy |-> "none", last |-> "none"]

\* the OCR state of the form as first rendered
OcrIdle ==
    [ocrLoading |-> FALSE, ocrError |-> Null, pending |-> "none",
     targetField |-> "none", outcome |-> "none", vin |-> <<>>, licensePlate |-> <<>>]

\* the function before a request has arrived
EdgeIdle ==
    [key |-> FALSE, req |-> Null, visionCalls |-> <<>>, vision |-> Null,
     response |-> Null, stage |-> "idle"]

\* the rest of the application as first rendered
AppIdle ==
    /\ AuthIdle
    /\ page = PageUnmounted
    /\ ocr = OcrIdle
    /\ edge = EdgeIdle

Init == HookInit /\ NormIdle /\ FormIdle /\ AppIdle

\* ------------------------------------------------------------------ actions
\* fetchVinData(raw), with the effect on vinToFetch that the new value runs.
\* Storing the value that is already stored re-renders nothing: neither the
\* cleanup of the effect nor the effect runs.
fetchVinData(raw) ==
    /\ mounted
    /\ IF raw = vinToFetch
       THEN UNCHANGED <<data, isLoading, error, vinToFetch, timer, windowDispatches>>
       ELSE /\ vinToFetch' = raw
            /\ IF IsValidVin(raw)
               THEN /\ timer' = debouncedFetch(upperCaseVin(raw))
                    /\ windowDispatches' = 0
                    /\ UNCHANGED <<data, isLoading, error>>
               ELSE /\ timer' = cancel
                    /\ data' = Null
                    /\ error' = Null
                    /\ isLoading' = FALSE
                    /\ UNCHANGED windowDispatches
    /\ sinceSubmit' = 0
    /\ burst' = IF sinceSubmit >= DEBOUNCE_DELAY THEN {} ELSE burst
    /\ lastEvent' = Event("submit", NoResponse, FALSE, raw # vinToFetch, Pending)
    /\ UNCHANGED <<inflight, mounted, ended, normVars, formVars, appVars>>

\* Time passes, by one clock step or up to the expiry of the timer.  Only
\* the timer and the calls of a mounted hook are timed.
Tick ==
    /\ ~Expired
    /\ Pending \/ (mounted /\ sinceSubmit < DEBOUNCE_DELAY)
    /\ LET adv == IF Pending THEN Min(TickLength, timer[1].remaining) ELSE TickLength
       IN  /\ timer' = IF Pending
                       THEN Some([timer[1] EXCEPT !.remaining = @ - adv])
                       ELSE timer
           /\ sinceSubmit' = Min(DEBOUNCE_DELAY, sinceSubmit + adv)
    /\ lastEvent' = Event("tick", NoResponse, FALSE, FALSE, FALSE)
    /\ UNCHANGED <<data, isLoading, error, vinToFetch, inflight, mounted,
                   burst, windowDispatches, ended, normVars, formVars, appVars>>

\* The trailing edge of the debounce: performFetch(args) up to its first await.
TimerFire ==
    /\ Expired
    /\ Len(inflight) < MaxInflight
    /\ LET vin == timer[1].args
       IN  IF Len(vin) # VIN_LENGTH
           THEN /\ data' = Null
                /\ error' = Null
                /\ isLoading' = FALSE
                /\ UNCHANGED <<inflight, burst, windowDispatches>>
           ELSE /\ isLoading' = TRUE
                /\ error' = Null
                /\ data' = Null
                /\ inflight' = Append([i \in 1..Len(inflight) |->
                                          [inflight[i] EXCEPT !.latest = FALSE]],
                                      [vin |-> vin, latest |-> TRUE])
                /\ burst' = burst \cup {vin}
                /\ windowDispatches' = windowDispatches + 1
    /\ timer' = TimerAfterFire(timer)
    /\ lastEvent' = Event("dispatch", NoResponse, FALSE, FALSE, FALSE)
    /\ UNCHANGED <<vinToFetch, mounted, sinceSubmit, ended, normVars, formVars, appVars>>

\* The rest of performFetch for the i-th lookup in flight, once the awaited
\* fetch and response.json() have ended with resp.  State updates of an
\* unmounted component are dropped.
Complete(i, resp) ==
    /\ i \in 1..Len(inflight)
    /\ inflight' = [j \in 1..(Len(inflight) - 1) |->
                       IF j < i THEN inflight[j] ELSE inflight[j + 1]]
    /\ IF mounted
       THEN /\ data' = AfterResponse(resp).data
            /\ error' = AfterResponse(resp).error
            /\ isLoading' = AfterResponse(resp).isLoading
       ELSE UNCHANGED <<data, isLoading, error>>
    /\ ended' = IF mounted THEN ended \cup {inflight[i].vin} ELSE ended
    /\ lastEvent' = Event("response", resp, inflight[i].latest, FALSE, error # Null)
    /\ UNCHANGED <<vinToFetch, timer, mounted, sinceSubmit, burst, windowDispatches,
                   normVars, formVars, appVars>>

\* The cleanup of the effect when the component unmounts.  The state of the
\* hook is discarded with the component (shown here as its initial values);
\* the lookups in flight go on.
Unmount ==
    /\ mounted
    /\ mounted' = FALSE
    /\ timer' = cancel
    /\ data' = Null
    /\ error' = Null
    /\ isLoading' = FALSE
    /\ vinToFetch' = <<>>
    /\ sinceSubmit' = DEBOUNCE_DELAY
    /\ burst' = {}
    /\ windowDispatches' = 0
    /\ ended' = {}
    /\ lastEvent' = Event("unmount", NoResponse, FALSE, FALSE, Pending)
    /\ UNCHANGED <<inflight, normVars, formVars, appVars>>

Next ==
    \/ \E raw \in RawInputs : fetchVinData(raw)
    \/ Tick
    \/ TimerFire
    \/ \E i \in 1..MaxInflight, resp \in Responses : Complete(i, resp)
    \/ Unmount

Spec == Init /\ [][Next]_vars

\* Every lookup in flight is answered in the end: the fetch resolves or
\* rejects.
SpecLive ==
    /\ Init
    /\ [][Next]_vars
    /\ WF_vars(\E i \in 1..MaxInflight, resp \in Responses : Complete(i, resp))

TypeOK ==
    /\ isLoading \in BOOLEAN
    /\ mounted \in BOOLEAN
    /\ vinToFetch \in RawInputs
    /\ Len(inflight) <= MaxInflight
    /\ sinceSubmit \in 0..DEBOUNCE_DELAY

\* ------------------------------------------------------ deserializeVinData
\* Largest number of records in the Results array of a response.
MaxBatch == 2

OnlyDigits(s) == \A i \in 1..Len(s) : IsDigit(s[i])

\* the position of the first "." of s, 0 when there is none
DotAt(s) ==
    IF \E i \in 1..Len(s) : s[i] = "."
    THEN CHOOSE i \in 1..Len(s) : s[i] = "." /\ \A j \in 1..(i - 1) : s[j] # "."
    ELSE 0

RECURSIVE StripZeros(_)
StripZeros(s) ==
    IF s # <<>> /\ s[Len(s)] = "0" THEN StripZeros(SubSeq(s, 1, Len(s) - 1)) ELSE s

NaN == [isNaN |-> TRUE, neg |-> FALSE, whole |-> 0, frac |-> <<>>]

\* Number(s) for decimal text: blanks around the text are dropped, the text
\* without characters is 0, an optional sign is read, then digits with an
\* optional fraction; any other text is NaN.  The value is the sign, the
\* whole part and the digits of the fraction.  (Exponents, hexadecimal text
\* and Infinity are not among the inputs.)
Number(s) ==
    LET t    == trim(s)
        neg  == t # <<>> /\ Head(t) = "-"
        body == IF t # <<>> /\ Head(t) \in {"-", "+"} THEN Tail(t) ELSE t
        dot  == DotAt(body)
        w    == IF dot = 0 THEN body ELSE SubSeq(body, 1, dot - 1)
        f    == IF dot = 0 THEN <<>> ELSE SubSeq(body, dot + 1, Len(body))
    IN  IF t = <<>>
        THEN [isNaN |-> FALSE, neg |-> FALSE, whole |-> 0, frac |-> <<>>]
        ELSE IF OnlyDigits(w) /\ OnlyDigits(f) /\ (w # <<>> \/ f # <<>>)
        THEN [isNaN |-> FALSE, neg |-> neg, whole |-> DigitPrefix(w, 0),
              frac |-> StripZeros(f)]
        ELSE NaN

\* variant: the empty string is kept
getValueOrNull_KeepEmpty(value) == value

\* value === '' || value === undefined || value === null ? null : value
getValueOrNull(value) ==
    IF value = Some(<<>>) \/ value = Null THEN Null ELSE value

getNumberOrNull(value) ==
    LET strValue == getValueOrNull(value)
    IN  IF strValue = Null THEN Null
        ELSE LET num == Number(strValue[1])
             IN  IF num.isNaN THEN Null ELSE Some(num)

\* the body of the map callback: one MainVehicleData for one result
MainVehicleData(result) ==
    [vin                 |-> getValueOrNull(result.VIN),
     make                |-> getValueOrNull(result.Make),
     manufacturer        |-> getValueOrNull(result.Manufacturer),
     model               |-> getValueOrNull(result.Model),
     modelYear           |-> getValueOrNull(result.ModelYear),
     vehicleType         |-> getValueOrNull(result.VehicleType),
     bodyClass           |-> getValueOrNull(result.BodyClass),
     driveType           |-> getValueOrNull(result.DriveType),
     engineCylinders     |-> getNumberOrNull(result.EngineCylinders),
     engineDisplacementL |-> getNumberOrNull(result.DisplacementL),
     engineHP            |-> getNumberOrNull(result.EngineHP),
     fuelType            |-> getValueOrNull(result.FuelTypePrimary),
     doors               |-> getNumberOrNull(result.Doors),
     errorCode           |-> getValueOrNull(result.ErrorCode),
     errorText           |-> getValueOrNull(result.ErrorText)]

\* variant: only the first result is mapped
deserializeVinData_FirstOnly(response) ==
    IF response = Null THEN <<>>
    ELSE IF response[1].Results = Null THEN <<>>
    ELSE IF response[1].Count = 0 THEN <<>>
    ELSE [i \in 1..Min(1, Len(response[1].Results[1])) |->
             MainVehicleData(response[1].Results[1][i])]

\* deserializeVinData(apiResponse)
deserializeVinData(response) ==
    IF response = Null THEN <<>>
    ELSE IF response[1].Results = Null THEN <<>>
    ELSE IF response[1].Count = 0 THEN <<>>
    ELSE [i \in 1..Len(response[1].Results[1]) |->
             MainVehicleData(response[1].Results[1][i])]

\* The object {} as a result of the service: every member absent.
NhtsaBlank ==
    [VIN |-> Null, Make |-> Null, Manufacturer |-> Null, Model |-> Null,
     ModelYear |-> Null, VehicleType |-> Null, BodyClass |-> Null,
     DriveType |-> Null, EngineCylinders |-> Null, DisplacementL |-> Null,
     EngineHP |-> Null, FuelTypePrimary |-> Null, Doors |-> Null,
     ErrorCode |-> Null, ErrorText |-> Null]

\* a fully decoded vehicle
NhtsaHonda ==
    [VIN |-> Some(VinA),
     Make |-> Some(<<"H","O","N","D","A">>),
     Manufacturer |-> Some(<<"A","H","M">>),
     Model |-> Some(<<"A","C","C","O","R","D">>),
     ModelYear |-> Some(<<"2","0","1","9">>),
     VehicleType |-> Some(<<"C","A","R">>),
     BodyClass |-> Some(<<"S","e","d","a","n">>),
     DriveType |-> Some(<<"F","W","D">>),
     EngineCylinders |-> Some(<<"4">>),
     DisplacementL |-> Some(<<"2",".","4">>),
     EngineHP |-> Some(<<"1","6","0">>),
     FuelTypePrimary |-> Some(<<"G","a","s">>),
     Doors |-> Some(<<"4">>),
     ErrorCode |-> Some(<<"0">>),
     ErrorText |-> Some(<<>>)]

\* text in the numeric members, blanks around the model, empty strings
NhtsaOdd ==
    [NhtsaBlank EXCEPT
        !.VIN = Some(VinB),
        !.Make = Some(<<"T","O","Y","O","T","A">>),
        !.Manufacturer = Some(<<>>),
        !.Model = Some(<<" ","C","A","M","R","Y"," ">>),
        !.ModelYear = Some(<<"a","b","c">>),
        !.VehicleType = Some(<<>>),
        !.EngineCylinders = Some(<<"a","b","c">>),
        !.DisplacementL = Some(<<"2",".","5","L">>),
        !.EngineHP = Some(<<"1","2","p","x">>),
        !.Doors = Some(<<>>),
        !.ErrorCode = Some(<<"8">>),
        !.ErrorText = Some(<<"N","o"," ","d","a","t","a">>)]

\* every member the empty string
NhtsaEmpty ==
    [VIN |-> Some(<<>>), Make |-> Some(<<>>), Manufacturer |-> Some(<<>>),
     Model |-> Some(<<>>), ModelYear |-> Some(<<>>), VehicleType |-> Some(<<>>),
     BodyClass |-> Some(<<>>), DriveType |-> Some(<<>>),
     EngineCylinders |-> Some(<<>>), DisplacementL |-> Some(<<>>),
     EngineHP |-> Some(<<>>), FuelTypePrimary |-> Some(<<>>), Doors |-> Some(<<>>),
     ErrorCode |-> Some(<<>>), ErrorText |-> Some(<<>>)]

NhtsaResults == {NhtsaBlank, NhtsaHonda, NhtsaOdd, NhtsaEmpty}

\* the Results arrays of up to MaxBatch results
Batches ==
    UNION {[1..n -> NhtsaResults] : n \in 0..MaxBatch}

\* The arguments of deserializeVinData: null, an object without Results, and
\* objects with a Results array whose Count is the length of the array or 0.
ApiResponses ==
    {Null, Some([Count |-> 0, Results |-> Null])}
    \cup UNION {{Some([Count |-> c, Results |-> Some(b)]) : c \in {0, Len(b)}} :
                   b \in Batches}

NormInit ==
    /\ HookInit
    /\ FormIdle
    /\ AppIdle
    /\ apiResponse \in ApiResponses
    /\ returned = Null
    /\ decoded = Null

\* the call deserializeVinData(apiResponse)
Normalize ==
    /\ returned = Null
    /\ returned' = Some(deserializeVinData(apiResponse))
    /\ UNCHANGED <<apiResponse, decoded, hookVars, formVars, appVars>>

\* the success branch of performFetch on the same response: the first
\* result, deserialized
Decode ==
    /\ decoded = Null
    /\ FirstResult(apiResponse) # Null
    /\ decoded' = Some(Deserialize(FirstResult(apiResponse)[1]))
    /\ UNCHANGED <<apiResponse, returned, hookVars, formVars, appVars>>

NormNext == Normalize \/ Decode

SpecNorm == NormInit /\ [][NormNext]_vars

\* ------------------------------------------------------------- VehicleForm
\* the texts typed into the make and model inputs
TypedTexts == {<<>>, <<"F","O","R","D">>}

\* the values of the year input (type="number"): '' or the text of a number
TypedYears == {<<>>, <<"0">>, <<"1","9","9","9">>}

\* The vehicles given as initialData; Null is "no initialData" (creating).
InitialDatas ==
    {Null,
     Some([make  |-> Some(<<"B","M","W">>), model |-> Null,
           year  |-> Some([isNaN |-> FALSE, val |-> 2015])])}

\* the values of data that the hook publishes
VinDatas == {Null} \cup {Some(Deserialize(r)) : r \in Records}

\* !year and vinData.year as conditions: '' , null, 0 and NaN are falsy
TruthyNumber(n) == n # Null /\ ~n[1].isNaN /\ n[1].val # 0

\* if (vinData.make && !make) setMake(vinData.make)
MergedMake(d) ==
    IF d # Null /\ Truthy(d[1].make) /\ make = <<>> THEN d[1].make[1] ELSE make

\* if (vinData.model && !model) setModel(vinData.model)
MergedModel(d) ==
    IF d # Null /\ Truthy(d[1].model) /\ model = <<>> THEN d[1].model[1] ELSE model

\* if (vinData.year && !year) setYear(vinData.year)
MergedYear(d) ==
    IF d # Null /\ TruthyNumber(d[1].year) /\ ~TruthyNumber(year)
    THEN d[1].year
    ELSE year

\* onChange of the make input
onChangeMake(text) ==
    /\ make' = text
    /\ formEvent' = "typed"
    /\ UNCHANGED <<vinData, model, year, hookVars, normVars, appVars>>

\* onChange of the model input
onChangeModel(text) ==
    /\ model' = text
    /\ formEvent' = "typed"
    /\ UNCHANGED <<vinData, make, year, hookVars, normVars, appVars>>

\* onChange of the year input
onChangeYear(text) ==
    /\ year' = IF text = <<>>
               THEN Null
               ELSE Some(parseInt(text))
    /\ formEvent' = "typed"
    /\ UNCHANGED <<vinData, make, model, hookVars, normVars, appVars>>

\* the effect on initialData
initialDataEffect(initialData) ==
    /\ IF initialData # Null
       THEN /\ make' = (IF Truthy(initialData[1].make) THEN initialData[1].make[1] ELSE <<>>)
            /\ model' = (IF Truthy(initialData[1].model) THEN initialData[1].model[1] ELSE <<>>)
            /\ year' = (IF TruthyNumber(initialData[1].year) THEN initialData[1].year ELSE Null)
       ELSE /\ make' = <<>>
            /\ model' = <<>>
            /\ year' = Null
    /\ formEvent' = "loaded"
    /\ UNCHANGED <<vinData, hookVars, normVars, appVars>>

\* The hook publishes d as data and the form renders it: the effect on
\* vinData runs with the fields of that render.
vinDataEffect(d) ==
    /\ vinData' = d
    /\ make' = MergedMake(d)
    /\ model' = MergedModel(d)
    /\ year' = MergedYear(d)
    /\ formEvent' = "published"
    /\ UNCHANGED <<hookVars, normVars, appVars>>

FormNext ==
    \/ \E text \in TypedTexts : onChangeMake(text)
    \/ \E text \in TypedTexts : onChangeModel(text)
    \/ \E text \in TypedYears : onChangeYear(text)
    \/ \E initialData \in InitialDatas : initialDataEffect(initialData)
    \/ \E d \in VinDatas : vinDataEffect(d)

SpecForm == Init /\ [][FormNext]_vars

\* ------------------------------------------------------------ AuthProvider
\* Largest number of auth events emitted and not yet handled.
MaxEvents == 2

\* Largest number of profile queries in flight.
MaxQueries == 2

Users == {"u1", "u2"}

\* a Session of user u
SessionOf(u) == Some([user |-> u])

\* session?.user ?? null
UserOf(s) == IF s = Null THEN Null ELSE Some(s[1].user)

\* the row of the profiles table of user u
ProfileRow(u) == [id |-> u, role |-> IF u = "u1" THEN "admin" ELSE "mechanic"]

\* What the profile query of user u ends with: the row, no row (status 406),
\* another error, or an exception.
QueryOutcomes(u) ==
    {[kind |-> "data", data |-> Some(ProfileRow(u))],
     [kind |-> "norow", data |-> Null],
     [kind |-> "error", data |-> Null],
     [kind |-> "throw", data |-> Null]}

AuthEvent(e, s) == [event |-> e, session |-> s]

\* The provider as the listener is registered: getSession has been called,
\* and the client emits INITIAL_SESSION with the stored session, or SIGNED_IN
\* when it has just taken a session from the URL.
SupabaseInits ==
    {[stored |-> s, events |-> <<AuthEvent(e, s)>>, profileQueries |-> <<>>,
      signOutPending |-> FALSE, getSessionPending |-> TRUE, handled |-> "mount"] :
        s \in {Null}, e \in {"INITIAL_SESSION"}}
    \cup
    {[stored |-> SessionOf(u), events |-> <<AuthEvent(e, SessionOf(u))>>,
      profileQueries |-> <<>>, signOutPending |-> FALSE,
      getSessionPending |-> TRUE, handled |-> "mount"] :
        u \in {"u1"}, e \in {"INITIAL_SESSION", "SIGNED_IN"}}

AuthInit ==
    /\ HookInit
    /\ NormIdle
    /\ FormIdle
    /\ auth = [session |-> Null, user |-> Null, profile |-> Null, loading |-> TRUE]
    /\ supabase \in SupabaseInits
    /\ page = PageUnmounted
    /\ ocr = OcrIdle
    /\ edge = EdgeIdle

\* variant: the session is not tested
ProtectedRoute_NoSessionTest ==
    IF auth.loading THEN "Loading" ELSE "Outlet"

\* what ProtectedRoute returns
ProtectedRoute ==
    IF auth.loading THEN "Loading"
    ELSE IF auth.session = Null THEN "Navigate /login"
    ELSE "Outlet"

\* {!loading && children} of AuthProvider, with the element of the route
ChildRoutesRendered == ~auth.loading /\ ProtectedRoute = "Outlet"

\* the Auth form of the Login page is shown
LoginFormRendered == ~auth.loading /\ auth.session = Null

\* The page once the provider has rendered auth state a: the children of the
\* provider and of ProtectedRoute are unmounted, and their state is lost,
\* unless loading is false and there is a session.
PageAfterRender(a) ==
    IF ~a.loading /\ a.session # Null THEN page ELSE PageUnmounted

\* The user signs in with the Auth form: the client stores the session and
\* emits SIGNED_IN.
SignIn(u) ==
    /\ LoginFormRendered
    /\ supabase.stored = Null
    /\ Len(supabase.events) < MaxEvents
    /\ supabase' = [supabase EXCEPT
                       !.stored = SessionOf(u),
                       !.events = Append(@, AuthEvent("SIGNED_IN", SessionOf(u))),
                       !.handled = "signIn"]
    /\ UNCHANGED <<auth, page, ocr, edge, hookVars, normVars, formVars>>

\* the client refreshes the token of the stored session
TokenRefreshed ==
    /\ supabase.stored # Null
    /\ Len(supabase.events) < MaxEvents
    /\ supabase' = [supabase EXCEPT
                       !.events = Append(@, AuthEvent("TOKEN_REFRESHED", supabase.stored)),
                       !.handled = "refresh"]
    /\ UNCHANGED <<auth, page, ocr, edge, hookVars, normVars, formVars>>

\* the awaited supabase.auth.getSession() of the mount effect resolves
GetSessionResolve ==
    /\ supabase.getSessionPending
    /\ auth' = [auth EXCEPT
                   !.session = supabase.stored,
                   !.user = UserOf(supabase.stored),
                   !.loading = FALSE]
    /\ supabase' = [supabase EXCEPT !.getSessionPending = FALSE,
                                    !.handled = "getSession"]
    /\ page' = PageAfterRender(auth')
    /\ UNCHANGED <<ocr, edge, hookVars, normVars, formVars>>

\* the listener given to onAuthStateChange, called with the oldest event
Listener ==
    /\ supabase.events # <<>>
    /\ LET ev          == Head(supabase.events)
           currentUser == UserOf(ev.session)
           fetches     == ev.event = "SIGNED_IN" /\ currentUser # Null
       IN  /\ fetches => Len(supabase.profileQueries) < MaxQueries
           /\ auth' = [auth EXCEPT
                          !.session = ev.session,
                          !.user = currentUser,
                          !.profile = IF ~fetches /\ currentUser = Null THEN Null ELSE @,
                          !.loading = fetches]
           /\ supabase' = [supabase EXCEPT
                              !.events = Tail(@),
                              !.profileQueries =
                                  IF fetches THEN Append(@, currentUser[1]) ELSE @,
                              !.handled = "listener"]
    /\ page' = PageAfterRender(auth')
    /\ UNCHANGED <<ocr, edge, hookVars, normVars, formVars>>

\* the profile after the query has ended with outcome o
ProfileAfterQuery(o) == IF o.kind = "data" THEN o.data ELSE Null

\* The rest of fetchProfile for the i-th query in flight, once the awaited
\* query has ended with outcome o.
FetchProfileResolve(i, o) ==
    /\ i \in 1..Len(supabase.profileQueries)
    /\ o \in QueryOutcomes(supabase.profileQueries[i])
    /\ auth' = [auth EXCEPT !.profile = ProfileAfterQuery(o), !.loading = FALSE]
    /\ supabase' = [supabase EXCEPT
                       !.profileQueries =
                           [j \in 1..(Len(@) - 1) |-> IF j < i THEN @[j] ELSE @[j + 1]],
                       !.handled = "fetchProfile"]
    /\ page' = PageAfterRender(auth')
    /\ UNCHANGED <<ocr, edge, hookVars, normVars, formVars>>

\* signOut() up to its await; it is called from the menu of the AppBar
signOut ==
    /\ ChildRoutesRendered
    /\ ~supabase.signOutPending
    /\ auth' = [auth EXCEPT !.loading = TRUE]
    /\ supabase' = [supabase EXCEPT !.signOutPending = TRUE, !.handled = "signOut"]
    /\ page' = PageAfterRender(auth')
    /\ UNCHANGED <<ocr, edge, hookVars, normVars, formVars>>

\* variant: loading is left as it is when signing out has failed
LoadingAfterSignOutError_Kept == auth.loading

\* setLoading(false) of the error branch of signOut
LoadingAfterSignOutError == FALSE

\* The rest of signOut once supabase.auth.signOut() has resolved: with an
\* error, or without one, the client having removed the session and emitted
\* SIGNED_OUT.
SignOutResolve(failed) ==
    /\ supabase.signOutPending
    /\ IF failed
       THEN /\ auth' = [auth EXCEPT !.loading = LoadingAfterSignOutError]
            /\ supabase' = [supabase EXCEPT !.signOutPending = FALSE,
                                            !.handled = "signOutError"]
       ELSE /\ Len(supabase.events) < MaxEvents
            /\ auth' = auth
            /\ supabase' = [supabase EXCEPT
                               !.signOutPending = FALSE,
                               !.stored = Null,
                               !.events = Append(@, AuthEvent("SIGNED_OUT", Null)),
                               !.handled = "signOutDone"]
    /\ page' = PageAfterRender(auth')
    /\ UNCHANGED <<ocr, edge, hookVars, normVars, formVars>>

AuthNext ==
    \/ \E u \in Users : SignIn(u)
    \/ TokenRefreshed
    \/ GetSessionResolve
    \/ Listener
    \/ \E i \in 1..MaxQueries, o \in UNION {QueryOutcomes(u) : u \in Users} :
          FetchProfileResolve(i, o)
    \/ signOut
    \/ \E failed \in BOOLEAN : SignOutResolve(failed)

SpecAuth == AuthInit /\ [][AuthNext]_vars

\* The client delivers its events, and getSession, signOut and the profile
\* query return.
SpecAuthLive ==
    /\ AuthInit
    /\ [][AuthNext]_vars
    /\ WF_vars(Listener)
    /\ WF_vars(GetSessionResolve)
    /\ WF_vars(\E failed \in BOOLEAN : SignOutResolve(failed))
    /\ WF_vars(\E i \in 1..MaxQueries, o \in UNION {QueryOutcomes(u) : u \in Users} :
                  FetchProfileResolve(i, o))

\* ------------------------------------------------- Vehicles and Clients pages
Roles == {"admin", "service_advisor", "mechanic", "inventory_clerk"}

Routes == {"/vehicles", "/clients"}

\* the rows shown in the table of the page
Rows == {"r1", "r2"}

\* the messages of the errors the store reports
StoreMessages == {"permission denied", ""}

\* role: profile?.role ?? null of the context
role == IF auth.profile = Null THEN Null ELSE Some(auth.profile[1].role)

canManageVehicles == role = Some("admin") \/ role = Some("service_advisor")

canManageClients == role = Some("admin") \/ role = Some("service_advisor")

\* the add, edit and delete controls of the page are rendered
ControlsRendered ==
    /\ page.route # "none"
    /\ IF page.route = "/vehicles" THEN canManageVehicles ELSE canManageClients

\* the table of the store the page works on
TableOf(route) == IF route = "/vehicles" THEN "vehicles" ELSE "clients"

\* The object the form passes to onSubmit: the fields of the form, with id,
\* created_at and updated_at of initialData when the form is editing.
FormFields(route) ==
    IF route = "/vehicles"
    THEN {"vin", "license_plate", "make", "model", "year", "color", "client_id"}
    ELSE {"name", "email", "phone", "address"}

FormData(route, initialData) ==
    [keys |-> FormFields(route) \cup
              (IF initialData # Null THEN {"id", "created_at", "updated_at"} ELSE {}),
     id   |-> initialData]

\* const { id, created_at, updated_at, ...insertData } = vehicleData
insertData(vehicleData) == vehicleData.keys \ {"id", "created_at", "updated_at"}

\* variant: an insert is sent whatever the page is editing
RequestOf_AlwaysInsert(route, editing, vehicleData) ==
    [op |-> "insert", table |-> TableOf(route),
     keys |-> insertData(vehicleData), eqId |-> Null]

\* the request handleFormSubmit sends to the store
RequestOf(route, editing, vehicleData) ==
    IF editing # Null
    THEN [op |-> "update", table |-> TableOf(route),
          keys |-> vehicleData.keys, eqId |-> editing]
    ELSE [op |-> "insert", table |-> TableOf(route),
          keys |-> insertData(vehicleData), eqId |-> Null]

\* err.message || 'Failed to save vehicle.' (or client)
SaveMessage(route, message) ==
    IF message # "" THEN message
    ELSE IF route = "/vehicles" THEN "Failed to save vehicle." ELSE "Failed to save client."

\* err.message || 'Failed to delete vehicle.' (or client)
DeleteMessage(route, message) ==
    IF message # "" THEN message
    ELSE IF route = "/vehicles" THEN "Failed to delete vehicle." ELSE "Failed to delete client."

\* a page is rendered as the element of its route
Navigate(r) ==
    /\ ChildRoutesRendered
    /\ page.route = "none"
    /\ page' = [PageUnmounted EXCEPT !.route = r, !.last = "mount"]
    /\ UNCHANGED <<auth, supabase, ocr, edge, hookVars, normVars, formVars>>

\* handleAddVehicle / handleAddClient; only the Vehicles page clears the error
handleAdd ==
    /\ ControlsRendered
    /\ ~page.isModalOpen
    /\ page' = [page EXCEPT
                   !.editing = Null,
                   !.error = IF page.route = "/vehicles" THEN Null ELSE @,
                   !.isModalOpen = TRUE,
                   !.openedBy = "add",
                   !.last = "add"]
    /\ UNCHANGED <<auth, supabase, ocr, edge, hookVars, normVars, formVars>>

\* handleEditVehicle / handleEditClient
handleEdit(row) ==
    /\ ControlsRendered
    /\ ~page.isModalOpen
    /\ page' = [page EXCEPT
                   !.editing = Some(row),
                   !.error = IF page.route = "/vehicles" THEN Null ELSE @,
                   !.isModalOpen = TRUE,
                   !.openedBy = "edit",
                   !.last = "edit"]
    /\ UNCHANGED <<auth, supabase, ocr, edge, hookVars, normVars, formVars>>

\* handleCancelForm: the Cancel button of the form (disabled while
\* submitting), the close button of the modal and its backdrop
handleCancelForm ==
    /\ page.route # "none"
    /\ page.isModalOpen
    /\ page' = [page EXCEPT
                   !.isModalOpen = FALSE,
                   !.editing = Null,
                   !.error = Null,
                   !.last = "cancel"]
    /\ UNCHANGED <<auth, supabase, ocr, edge, hookVars, normVars, formVars>>

\* handleFormSubmit up to its first await; the submit button of the form is
\* disabled while isSubmitting
handleFormSubmit ==
    /\ page.route # "none"
    /\ page.isModalOpen
    /\ ~page.isSubmitting
    /\ page' = [page EXCEPT
                   !.isSubmitting = TRUE,
                   !.error = Null,
                   !.call = Some([request |-> RequestOf(page.route, page.editing,
                                                        FormData(page.route, page.editing)),
                                  stage |-> "store",
                                  openedBy |-> page.openedBy,
                                  role |-> role]),
                   !.last = "submit"]
    /\ UNCHANGED <<auth, supabase, ocr, edge, hookVars, normVars, formVars>>

\* The rest of handleFormSubmit once the store has answered the update or
\* insert: with an error (catch and finally), or without one (the modal is
\* closed and the list is fetched again).
StoreResolve(failed, message) ==
    /\ page.call # Null
    /\ page.call[1].stage = "store"
    /\ IF failed
       THEN page' = [page EXCEPT
                        !.error = Some(SaveMessage(page.route, message)),
                        !.isSubmitting = FALSE,
                        !.call = Null,
                        !.last = "saveFailed"]
       ELSE page' = [page EXCEPT
                        !.isModalOpen = FALSE,
                        !.call = Some([page.call[1] EXCEPT !.stage = "refetch"]),
                        !.last = "saved"]
    /\ UNCHANGED <<auth, supabase, ocr, edge, hookVars, normVars, formVars>>

\* the awaited refetch of the list has ended: the finally block
RefetchResolve ==
    /\ page.call # Null
    /\ page.call[1].stage = "refetch"
    /\ page' = [page EXCEPT !.isSubmitting = FALSE, !.call = Null, !.last = "refetched"]
    /\ UNCHANGED <<auth, supabase, ocr, edge, hookVars, normVars, formVars>>

\* handleDeleteVehicle / handleDeleteClient, confirmed in the dialog, up to
\* its await
handleDelete(row) ==
    /\ ControlsRendered
    /\ ~page.isModalOpen
    /\ ~page.deleting
    /\ page' = [page EXCEPT
                   !.deleting = TRUE,
                   !.error = IF page.route = "/vehicles" THEN Null ELSE @,
                   !.last = "delete"]
    /\ UNCHANGED <<auth, supabase, ocr, edge, hookVars, normVars, formVars>>

\* the store has answered the delete
DeleteResolve(failed, message) ==
    /\ page.route # "none"
    /\ page.deleting
    /\ page' = [page EXCEPT
                   !.deleting = FALSE,
                   !.error = IF failed THEN Some(DeleteMessage(page.route, message)) ELSE @,
                   !.last = IF failed THEN "deleteFailed" ELSE "deleted"]
    /\ UNCHANGED <<auth, supabase, ocr, edge, hookVars, normVars, formVars>>

PageNext ==
    \/ \E r \in Routes : Navigate(r)
    \/ handleAdd
    \/ \E row \in Rows : handleEdit(row)
    \/ handleCancelForm
    \/ handleFormSubmit
    \/ \E failed \in BOOLEAN, message \in StoreMessages : StoreResolve(failed, message)
    \/ RefetchResolve
    \/ \E row \in Rows : handleDelete(row)
    \/ \E failed \in BOOLEAN, message \in StoreMessages : DeleteResolve(failed, message)

\* A page under a provider at rest: a user is signed in, with any profile or
\* none.
PageInit ==
    /\ HookInit
    /\ NormIdle
    /\ FormIdle
    /\ auth \in {[session |-> SessionOf("u1"), user |-> Some("u1"), profile |-> pr,
                  loading |-> FALSE] :
                    pr \in {Null} \cup {Some([id |-> "u1", role |-> r]) : r \in Roles}}
    /\ supabase = [stored |-> SessionOf("u1"), events |-> <<>>, profileQueries |-> <<>>,
                   signOutPending |-> FALSE, getSessionPending |-> FALSE,
                   handled |-> "listener"]
    /\ page = PageUnmounted
    /\ ocr = OcrIdle
    /\ edge = EdgeIdle

SpecPage == PageInit /\ [][PageNext]_vars

\* the pages under the provider, from the first render of the application
AppNext == AuthNext \/ PageNext

SpecApp == AuthInit /\ [][AppNext]_vars

\* ------------------------------------------- VehicleForm: handleImageForOCR
\* the fields that handleImageForOCR can fill
TargetFields == {"vin", "plate"}

\* values of responses[0].fullTextAnnotation.text in the answer of the function
FullTexts ==
    {<<"A", "B">>,
     <<"V", "I", "N", "\n", "C", "D", "\n", " ">>,
     <<"\n">>}

\* What supabase.functions.invoke resolves to: { data, error }.  data.error
\* is set by the function on its error answers; text is
\* data.responses[0].fullTextAnnotation.text, Null when a link of the chain
\* is missing.
InvokeResults ==
    {[error |-> Some("non-2xx status code"), dataError |-> Null, text |-> Null],
     [error |-> Null, dataError |-> Some("Google Vision API request failed"), text |-> Null],
     [error |-> Null, dataError |-> Null, text |-> Null]}
    \cup {[error |-> Null, dataError |-> Null, text |-> Some(t)] : t \in FullTexts}

\* recognizedText.indexOf('\n'): 0 when there is none (positions count from 1)
RECURSIVE IndexOfNewline(_, _)
IndexOfNewline(s, i) ==
    IF i > Len(s) THEN 0
    ELSE IF s[i] = "\n" THEN i
    ELSE IndexOfNewline(s, i + 1)

\* recognizedText.replace(/\n/g, '')
RECURSIVE RemoveNewlines(_)
RemoveNewlines(s) ==
    IF s = <<>> THEN <<>>
    ELSE IF Head(s) = "\n" THEN RemoveNewlines(Tail(s))
    ELSE <<Head(s)>> \o RemoveNewlines(Tail(s))

\* the text put in the field: what follows the first line when there is
\* more than one line, without newlines, trimmed
recognizedText(fullText) ==
    LET newlineIndex == IndexOfNewline(fullText, 1)
        rest == IF newlineIndex # 0
                THEN SubSeq(fullText, newlineIndex + 1, Len(fullText))
                ELSE fullText
    IN  trim(RemoveNewlines(rest))

\* The outcome of the callback of reader.onloadend after the invocation.
InvokeOutcome(res) ==
    IF res.error # Null THEN "functionError"
    ELSE IF res.dataError # Null THEN "reportedError"
    ELSE IF res.text = Null THEN "badFormat"
    ELSE "success"

\* the outcomes in which the callback throws
OcrFailures == {"readError", "functionError", "reportedError", "badFormat"}

\* A throw inside the async callback assigned to reader.onloadend rejects
\* the promise of that callback: the try / catch of handleImageForOCR, which
\* has already been left, does not run, and no state of the form is set.
OcrAfterThrow(o, outcome) ==
    [o EXCEPT !.pending = "none", !.outcome = outcome]

\* handleImageForOCR(event, targetField) up to the end of its try block: the
\* input is enabled, a file is selected or not.  The reader is started and
\* its callbacks are assigned.
handleImageForOCR(targetField, file) ==
    /\ ~ocr.ocrLoading
    /\ targetField = "vin" => ~isLoading
    /\ ocr.pending = "none"
    /\ ocr' = IF ~file
              THEN [ocr EXCEPT !.outcome = "noFile"]
              ELSE [ocr EXCEPT
                       !.ocrLoading = TRUE,
                       !.ocrError = Null,
                       !.pending = "read",
                       !.targetField = targetField,
                       !.outcome = "none"]
    /\ UNCHANGED <<auth, supabase, page, edge, hookVars, normVars, formVars>>

\* reader.onloadend fires, with reader.result a data URL, or null after a
\* read error
ReaderLoadEnd(read) ==
    /\ ocr.pending = "read"
    /\ ocr' = IF read
              THEN [ocr EXCEPT !.pending = "invoke"]
              ELSE OcrAfterThrow(ocr, "readError")
    /\ UNCHANGED <<auth, supabase, page, edge, hookVars, normVars, formVars>>

\* supabase.functions.invoke('ocr-vision') resolves: the rest of the callback
InvokeResolve(res) ==
    /\ ocr.pending = "invoke"
    /\ ocr' = IF InvokeOutcome(res) = "success"
              THEN [ocr EXCEPT
                       !.vin = IF ocr.targetField = "vin"
                               THEN recognizedText(res.text[1]) ELSE @,
                       !.licensePlate = IF ocr.targetField = "plate"
                                        THEN recognizedText(res.text[1]) ELSE @,
                       !.ocrLoading = FALSE,
                       !.pending = "none",
                       !.outcome = "success"]
              ELSE OcrAfterThrow(ocr, InvokeOutcome(res))
    /\ UNCHANGED <<auth, supabase, page, edge, hookVars, normVars, formVars>>

OcrNext ==
    \/ \E targetField \in TargetFields, file \in BOOLEAN :
          handleImageForOCR(targetField, file)
    \/ \E read \in BOOLEAN : ReaderLoadEnd(read)
    \/ \E res \in InvokeResults : InvokeResolve(res)

\* the form of a new vehicle, alone
SpecOcr == Init /\ [][OcrNext]_vars

\* ------------------------------------------------- the ocr-vision function
\* req.method
Methods == {"OPTIONS", "GET", "POST", "PUT"}

\* Values of the member imageBase64 of a parsed body: absent, a number, or a
\* string (empty, plain base64, a data URI with a comma, a data URI without)
ImageValues ==
    {[type |-> "undefined", val |-> <<>>],
     [type |-> "number", val |-> <<"5">>],
     [type |-> "string", val |-> <<>>],
     [type |-> "string", val |-> <<"a", "b">>],
     [type |-> "string", val |-> <<"d", "a", "t", "a", ":", "x", ",", "a", "b">>],
     [type |-> "string", val |-> <<"d", "a", "t", "a", ":">>]}

\* Bodies of a request: text that is not JSON, the JSON value null, or a
\* JSON object
RequestBodies ==
    {[json |-> FALSE, object |-> Null], [json |-> TRUE, object |-> Null]}
    \cup {[json |-> TRUE, object |-> Some([imageBase64 |-> v])] : v \in ImageValues}

Requests == [method : Methods, body : RequestBodies]

\* What the fetch of VISION_API_URL comes to: it rejects (or the reading of
\* the body of the response rejects), or it resolves to a response with a
\* status; the body of an OK response is JSON or is not
VisionOutcomes ==
    {[thrown |-> TRUE, status |-> 0, json |-> FALSE]}
    \cup {[thrown |-> FALSE, status |-> s, json |-> FALSE] : s \in {200, 400, 403, 500}}
    \cup {[thrown |-> FALSE, status |-> 200, json |-> TRUE]}

\* new Response(body, { status })
Response(status, body) == [status |-> status, body |-> body]

\* imageBase64.startsWith('data:')
StartsWithData(s) == Len(s) >= 5 /\ SubSeq(s, 1, 5) = <<"d", "a", "t", "a", ":">>

RECURSIVE IndexOfComma(_, _)
IndexOfComma(s, i) ==
    IF i > Len(s) THEN 0
    ELSE IF s[i] = "," THEN i
    ELSE IndexOfComma(s, i + 1)

\* imageBase64.split(',')[1]: what lies between the first comma and the
\* second, undefined when there is no comma
SplitSecond(s) ==
    LET first == IndexOfComma(s, 1)
        rest == SubSeq(s, first + 1, Len(s))
        second == IndexOfComma(rest, 1)
    IN  IF first = 0 THEN Null
        ELSE IF second = 0 THEN Some(rest)
        ELSE Some(SubSeq(rest, 1, second - 1))

\* !imageBase64 || typeof imageBase64 !== 'string'
imageBase64Invalid_TypeOnly(v) == v.type # "string"

imageBase64Invalid(v) ==
    \/ v.type = "undefined"
    \/ v.type = "string" /\ v.val = <<>>
    \/ v.type # "string"

\* image.content of the payload: the string without its data URI prefix
ImageContent(v) == IF StartsWithData(v.val) THEN SplitSecond(v.val) ELSE Some(v.val)

\* The handler from its first line up to its first return or to the fetch:
\* the answer, or Null and the content sent to the Vision API.
Validate(key, request) ==
    IF request.method = "OPTIONS"
    THEN [response |-> Some(Response(200, "ok")), content |-> Null]
    ELSE IF ~key
    THEN [response |-> Some(Response(500, "Server configuration error: API key missing.")),
          content |-> Null]
    ELSE IF request.method # "POST"
    THEN [response |-> Some(Response(405, "Method Not Allowed")), content |-> Null]
    ELSE IF ~request.body.json \/ request.body.object = Null
    THEN [response |-> Some(Response(400, "Invalid request body")), content |-> Null]
    ELSE IF imageBase64Invalid(request.body.object[1].imageBase64)
    THEN [response |-> Some(Response(400, "Missing or invalid imageBase64 field in request body")),
          content |-> Null]
    ELSE [response |-> Null,
          content |-> ImageContent(request.body.object[1].imageBase64)]

\* visionResponse.ok
Ok(status) == status >= 200 /\ status <= 299

\* the answer of the handler after the fetch
AfterVision(o) ==
    IF o.thrown THEN Response(500, "Internal server error")
    ELSE IF ~Ok(o.status) THEN Response(o.status, "Google Vision API request failed")
    ELSE IF ~o.json THEN Response(500, "Internal server error")
    ELSE Response(200, "visionData")

\* the function as deployed, with or without the secret GOOGLE_CLOUD_API_KEY
EdgeInit ==
    /\ HookInit /\ NormIdle /\ FormIdle
    /\ AuthIdle
    /\ page = PageUnmounted
    /\ ocr = OcrIdle
    /\ \E key \in BOOLEAN : edge = [EdgeIdle EXCEPT !.key = key]

\* a request arrives; the handler of the one before has returned
Receive(request) ==
    /\ edge.stage \in {"idle", "done"}
    /\ edge' = [edge EXCEPT
                   !.req = Some(request),
                   !.visionCalls = <<>>,
                   !.vision = Null,
                   !.response = Null,
                   !.stage = "received"]
    /\ UNCHANGED <<auth, supabase, page, ocr, hookVars, normVars, formVars>>

\* the handler runs up to its first return, or up to the await of the fetch
Handle ==
    /\ edge.stage = "received"
    /\ LET v == Validate(edge.key, edge.req[1])
       IN  edge' = IF v.response # Null
                   THEN [edge EXCEPT !.response = v.response, !.stage = "done"]
                   ELSE [edge EXCEPT
                            !.visionCalls = Append(@, v.content),
                            !.stage = "vision"]
    /\ UNCHANGED <<auth, supabase, page, ocr, hookVars, normVars, formVars>>

\* the fetch settles: the rest of the handler
VisionResolve(o) ==
    /\ edge.stage = "vision"
    /\ edge' = [edge EXCEPT
                   !.vision = Some(o),
                   !.response = Some(AfterVision(o)),
                   !.stage = "done"]
    /\ UNCHANGED <<auth, supabase, page, ocr, hookVars, normVars, formVars>>

EdgeNext ==
    \/ \E request \in Requests : Receive(request)
    \/ Handle
    \/ \E o \in VisionOutcomes : VisionResolve(o)

SpecEdge == EdgeInit /\ [][EdgeNext]_vars

\* ------------------------------------------------------------------ claims
Idle == data = Null /\ error = Null /\ ~isLoading

Outstanding == Len(inflight)

LatestOutstanding == \E i \in 1..Len(inflight) : inflight[i].latest

IsResponse == mounted /\ lastEvent.kind = "response"

\* C1: the response of a lookup that is no longer the one dispatched last
\* changes neither data nor error nor isLoading.
C1_StaleResponseChangesNothing ==
    [][(mounted /\ lastEvent'.kind = "response" /\ ~lastEvent'.latest)
          => UNCHANGED published]_vars

\* C2: of a burst of fetchVinData calls, each arriving before the settle
\* window of the previous call has elapsed, only the value of the last call
\* is dispatched: every value dispatched during the burst is the value of the
\* call made last.
C2_OnlyLastValueOfBurst ==
    \A v \in burst : v = toUpperCase(trim(vinToFetch))

\* C3: every value sent to the lookup (and every value the timer holds) has
\* exactly 17 characters and is trimmed and in upper case; while the stored
\* input does not have 17 characters once trimmed no timer is pending, so a
\* submitted invalid input leaves no timer of an earlier input running.
C3_PredicateGate ==
    /\ \A i \in 1..Len(inflight) :
          /\ Len(inflight[i].vin) = 17
          /\ inflight[i].vin = toUpperCase(trim(inflight[i].vin))
    /\ Pending =>
          /\ Len(timer[1].args) = 17
          /\ timer[1].args = toUpperCase(trim(vinToFetch))
    /\ Len(trim(vinToFetch)) # 17 => ~Pending

\* an input that fails the predicate was submitted while the timer of an
\* earlier valid input was running, and the timer is gone
C3_Witness ==
    /\ lastEvent.kind = "submit"
    /\ lastEvent.prior
    /\ Len(trim(vinToFetch)) # 17
    /\ ~Pending

\* C4: right after a call of fetchVinData with an input that fails the
\* predicate, data = null, error = null and isLoading = false, whatever the
\* state was before the call.
C4_RejectionClearsAtOnce ==
    (lastEvent.kind = "submit" /\ Len(trim(vinToFetch)) # 17) => Idle

\* C5 as stated: while isLoading is true exactly one lookup is outstanding.
C5_ExactlyOneOutstanding ==
    (mounted /\ isLoading) => Outstanding = 1

\* C5 as amended: while isLoading is true at least one lookup is outstanding,
\* the one dispatched last among them.
C5_LoadingImpliesOutstanding ==
    (mounted /\ isLoading) => (Outstanding >= 1 /\ LatestOutstanding)

\* isLoading is true while two lookups are outstanding
C5_Witness == mounted /\ isLoading /\ Outstanding = 2

\* the first record of the response that the last step handled
RespFirst ==
    LET b == lastEvent.resp.body
    IN  IF b = Null \/ b[1].Results = Null \/ b[1].Results[1] = <<>>
        THEN Null
        ELSE Some(b[1].Results[1][1])

AllDigits(s) == s # <<>> /\ \A i \in 1..Len(s) : IsDigit(s[i])

\* the number a text of digits denotes
RECURSIVE Numeral(_)
Numeral(s) ==
    IF s = <<>> THEN 0
    ELSE 10 * Numeral(SubSeq(s, 1, Len(s) - 1)) + DigitVal(s[Len(s)])

\* The response carries a first record with Make, Model and a numeric year.
FullRecord ==
    /\ lastEvent.resp.kind = "json"
    /\ RespFirst # Null
    /\ RespFirst[1].Make # Null /\ RespFirst[1].Make[1] # <<>>
    /\ RespFirst[1].Model # Null /\ RespFirst[1].Model[1] # <<>>
    /\ RespFirst[1].ModelYear # Null /\ AllDigits(RespFirst[1].ModelYear[1])

\* C6: a settle window that has elapsed for a valid input has dispatched
\* exactly one lookup, for that input; and when a response carries a first
\* record with Make, Model and a numeric ModelYear, the published state is
\* result = {make, model, year as integer}, error = null, isLoading = false.
C6_SuccessPublication ==
    /\ windowDispatches <= 1
    /\ lastEvent.kind = "dispatch" =>
          /\ windowDispatches = 1
          /\ ~Pending
          /\ inflight[Len(inflight)].vin = toUpperCase(trim(vinToFetch))
    /\ (IsResponse /\ FullRecord) =>
          /\ data = Some([make  |-> RespFirst[1].Make,
                          model |-> RespFirst[1].Model,
                          year  |-> Some([isNaN |-> FALSE,
                                          val |-> Numeral(RespFirst[1].ModelYear[1])])])
          /\ error = Null
          /\ ~isLoading

\* the response with HONDA, ACCORD, "2003" has been published with year 2003
C6_Witness ==
    /\ IsResponse
    /\ FullRecord
    /\ RespFirst[1].ModelYear[1] = <<"2","0","0","3">>
    /\ data # Null
    /\ data[1].make = Some(<<"H","O","N","D","A">>)
    /\ data[1].year = Some([isNaN |-> FALSE, val |-> 2003])
    /\ windowDispatches = 1

\* C7: when a response was transported but has no Results, or an empty
\* Results array, the published state is result = null, error = the fallback
\* message, isLoading = false.
C7_EmptyBatchIsDomainFailure ==
    (IsResponse /\ lastEvent.resp.kind = "json" /\ RespFirst = Null) =>
        /\ data = Null
        /\ error = Some("VIN not found or data unavailable.")
        /\ ~isLoading

\* a response with an empty Results array has been handled
C7_Witness ==
    /\ IsResponse
    /\ lastEvent.resp.kind = "json"
    /\ lastEvent.resp.body = Some([Results |-> Some(<<>>)])
    /\ error = Some("VIN not found or data unavailable.")

\* C8: when the fetch or the decoding of its body throws, the published state
\* is result = null, error = a non-empty message, isLoading = false; also
\* when an error was already published by an earlier failure.
C8_TransportFailure ==
    (IsResponse /\ lastEvent.resp.kind = "throw") =>
        /\ data = Null
        /\ error # Null
        /\ error[1] # ""
        /\ ~isLoading

\* the lookup dispatched last has thrown, with an error without a message,
\* while the error of an earlier failure was published
C8_Witness ==
    /\ IsResponse
    /\ lastEvent.resp.kind = "throw"
    /\ lastEvent.resp.message = Null
    /\ lastEvent.latest
    /\ lastEvent.prior
    /\ error = Some("Failed to decode VIN.")

\* C9: error is populated only while result is null.
C9_ErrorExcludesResult == error # Null => data = Null

\* the failure of a superseded lookup has been published while the lookup
\* dispatched after it is still outstanding
C9_Witness ==
    /\ IsResponse
    /\ ~lastEvent.latest
    /\ Outstanding >= 1
    /\ error # Null
    /\ data = Null

\* C10: a call of fetchVinData with a value whose lookup has ended starts a
\* new settle window for that value.
C10_ResubmitStartsNewWindow ==
    (/\ lastEvent.kind = "submit"
     /\ Len(trim(vinToFetch)) = 17
     /\ toUpperCase(trim(vinToFetch)) \in ended
     /\ Outstanding = 0)
    => timer = Some([args |-> toUpperCase(trim(vinToFetch)),
                     remaining |-> DEBOUNCE_DELAY])

\* the response handled by the last step reports a failure
FailedResponse ==
    IsResponse /\ (lastEvent.resp.kind = "throw" \/ RespFirst = Null)

\* C11: a lookup is dispatched only by a settle window that a call of
\* fetchVinData started and that has not dispatched yet, and that window is
\* used up by the dispatch: one dispatch per settled value, none after a
\* failure until fetchVinData is called again.
C11_NoAutomaticRetry ==
    [][lastEvent'.kind = "dispatch" =>
          /\ Pending
          /\ windowDispatches = 0
          /\ windowDispatches' = 1
          /\ ~Pending']_vars

\* a lookup has ended in a failure; nothing is in flight and no timer runs
C11_Witness ==
    /\ FailedResponse
    /\ lastEvent.latest
    /\ Outstanding = 0
    /\ ~Pending
    /\ windowDispatches = 1

\* C12: when a lookup is dispatched, a whole settle window has elapsed since
\* the most recent call of fetchVinData (every call, also one carrying the
\* value already stored, restarts the window).  A call made at the very
\* instant the window expires is left aside.
C12_WindowFromLastCall ==
    lastEvent.kind = "dispatch" =>
        (sinceSubmit >= DEBOUNCE_DELAY \/ sinceSubmit = 0)

\* C13: once the lookup dispatched after a submit during Loading has been
\* answered, the response of the earlier lookup, still in flight, does not
\* change the published state.
C13_LaterOutcomeIsFinal ==
    [][(/\ mounted
        /\ lastEvent'.kind = "response"
        /\ ~lastEvent'.latest
        /\ ~LatestOutstanding)
          => UNCHANGED published]_vars

DomainFailure ==
    /\ lastEvent.resp.kind = "json"
    /\ RespFirst = Null \/ RespFirst[1].ErrorCode # Some(<<"0">>)

\* the first record carries a non-empty ErrorText
CarriesErrorText ==
    /\ RespFirst # Null
    /\ RespFirst[1].ErrorText # Null
    /\ RespFirst[1].ErrorText[1] # <<>>

\* C18: after a domain failure an error is published: the fallback message
\* when the response carries no ErrorText, and the message of the service,
\* which is not the fallback message, when it carries one.
C18_RemoteMessagePublished ==
    (IsResponse /\ DomainFailure) =>
        /\ error # Null
        /\ CarriesErrorText => error[1] # "VIN not found or data unavailable."
        /\ ~CarriesErrorText => error[1] = "VIN not found or data unavailable."

\* the Results array given to deserializeVinData, empty when there is none
InputResults ==
    IF apiResponse = Null THEN <<>>
    ELSE IF apiResponse[1].Results = Null THEN <<>>
    ELSE apiResponse[1].Results[1]

\* the members of a result that are text, with the field each one becomes
StringMembers ==
    {<<"VIN", "vin">>, <<"Make", "make">>, <<"Manufacturer", "manufacturer">>,
     <<"Model", "model">>, <<"ModelYear", "modelYear">>,
     <<"VehicleType", "vehicleType">>, <<"BodyClass", "bodyClass">>,
     <<"DriveType", "driveType">>, <<"FuelTypePrimary", "fuelType">>,
     <<"ErrorCode", "errorCode">>, <<"ErrorText", "errorText">>}

\* the members of a result that are numbers, with the field each one becomes
NumericMembers ==
    {<<"EngineCylinders", "engineCylinders">>, <<"DisplacementL", "engineDisplacementL">>,
     <<"EngineHP", "engineHP">>, <<"Doors", "doors">>}

\* the text members that performFetch reads
HookStringMembers == {<<"Make", "make">>, <<"Model", "model">>}

Blank(raw) == raw = Null \/ raw = Some(<<>>)

HasLetter(s) ==
    \E i \in 1..Len(s) : \E j \in 1..Len(LowerCase) :
        s[i] = LowerCase[j] \/ s[i] = UpperCase[j]

\* C14: a numeric field whose raw text is not a number (it has a letter in
\* it) is null in the result and no numeric field of a result is NaN; a text
\* of digits is the integer it denotes.  This is stated of the numeric fields
\* of deserializeVinData and of the year of performFetch.
C14_NumericBestEffort ==
    /\ returned # Null =>
          \A i \in 1..Len(returned[1]) : \A m \in NumericMembers :
              LET raw == InputResults[i][m[1]]
                  out == returned[1][i][m[2]]
              IN  /\ (~Blank(raw) /\ HasLetter(raw[1])) => out = Null
                  /\ out # Null => ~out[1].isNaN
                  /\ (~Blank(raw) /\ AllDigits(raw[1])) =>
                        out = Some([isNaN |-> FALSE, neg |-> FALSE,
                                    whole |-> Numeral(raw[1]), frac |-> <<>>])
    /\ decoded # Null =>
          LET raw == InputResults[1].ModelYear
              out == decoded[1].year
          IN  /\ (~Blank(raw) /\ HasLetter(raw[1])) => out = Null
              /\ out # Null => ~out[1].isNaN
              /\ (~Blank(raw) /\ AllDigits(raw[1])) =>
                    out = Some([isNaN |-> FALSE, val |-> Numeral(raw[1])])

\* C15: a field whose raw value is absent, null or the empty string is null
\* in the result, and no text field of a result is the empty string; this
\* holds of every record, the empty object included.
C15_UnknownMarkerTotal ==
    /\ returned # Null =>
          \A i \in 1..Len(returned[1]) :
              /\ \A m \in StringMembers :
                    /\ Blank(InputResults[i][m[1]]) => returned[1][i][m[2]] = Null
                    /\ returned[1][i][m[2]] # Some(<<>>)
              /\ \A m \in NumericMembers :
                    Blank(InputResults[i][m[1]]) => returned[1][i][m[2]] = Null
    /\ decoded # Null =>
          /\ \A m \in HookStringMembers :
                /\ Blank(InputResults[1][m[1]]) => decoded[1][m[2]] = Null
                /\ decoded[1][m[2]] # Some(<<>>)
          /\ Blank(InputResults[1].ModelYear) => decoded[1].year = Null

\* the empty object has been normalized by both: every field is null
C15_Witness ==
    /\ InputResults # <<>>
    /\ InputResults[1] = NhtsaBlank
    /\ returned # Null
    /\ Len(returned[1]) >= 1
    /\ \A m \in StringMembers \cup NumericMembers : returned[1][1][m[2]] = Null
    /\ decoded = Some([make |-> Null, model |-> Null, year |-> Null])

\* the output record carries the text members of the input record
FromRecord(raw, out) ==
    \A m \in StringMembers : out[m[2]] = (IF Blank(raw[m[1]]) THEN Null ELSE raw[m[1]])

\* C19 as stated: the array returned by deserializeVinData has one element
\* per record of the Results array, in the order of the array, and is empty
\* when Results is empty or missing.
C19_OnePerRecord ==
    returned # Null =>
        /\ Len(returned[1]) = Len(InputResults)
        /\ \A i \in 1..Len(returned[1]) : FromRecord(InputResults[i], returned[1][i])

\* C19 as amended: when the Count of the response is 0 the array returned is
\* empty whatever Results holds; otherwise it has one element per record of
\* the Results array, in the order of the array, and is empty when Results is
\* empty or missing.
C19_OnePerRecordUnlessCountZero ==
    returned # Null =>
        IF apiResponse # Null /\ apiResponse[1].Count = 0
        THEN returned[1] = <<>>
        ELSE /\ Len(returned[1]) = Len(InputResults)
             /\ \A i \in 1..Len(returned[1]) :
                   FromRecord(InputResults[i], returned[1][i])

\* two different records have been mapped, each to the element at its place
C19_Witness ==
    /\ Len(InputResults) = 2
    /\ InputResults[1] = NhtsaOdd
    /\ InputResults[2] = NhtsaHonda
    /\ returned # Null
    /\ Len(returned[1]) = 2
    /\ returned[1][1].vin = Some(VinB)
    /\ returned[1][2].vin = Some(VinA)

\* C20 as stated: a text member that is present and not empty appears in the
\* result as the raw text without the blanks around it.
C20_TrimmedPassThrough ==
    /\ returned # Null =>
          \A i \in 1..Len(returned[1]) : \A m \in StringMembers :
              ~Blank(InputResults[i][m[1]]) =>
                  returned[1][i][m[2]] = Some(trim(InputResults[i][m[1]][1]))
    /\ decoded # Null =>
          \A m \in HookStringMembers :
              ~Blank(InputResults[1][m[1]]) =>
                  decoded[1][m[2]] = Some(trim(InputResults[1][m[1]][1]))

\* C20 as amended: a text member that is present and not empty appears in
\* the result as the raw text, character for character, blanks included.
C20_RawPassThrough ==
    /\ returned # Null =>
          \A i \in 1..Len(returned[1]) : \A m \in StringMembers :
              ~Blank(InputResults[i][m[1]]) =>
                  returned[1][i][m[2]] = InputResults[i][m[1]]
    /\ decoded # Null =>
          \A m \in HookStringMembers :
              ~Blank(InputResults[1][m[1]]) =>
                  decoded[1][m[2]] = InputResults[1][m[1]]

\* a model with blanks around it has come out of both with the blanks
C20_Witness ==
    /\ InputResults # <<>>
    /\ InputResults[1].Model = Some(<<" ","C","A","M","R","Y"," ">>)
    /\ returned # Null
    /\ Len(returned[1]) >= 1
    /\ returned[1][1].model = Some(<<" ","C","A","M","R","Y"," ">>)
    /\ decoded # Null
    /\ decoded[1].model = Some(<<" ","C","A","M","R","Y"," ">>)

\* C16: when a decoded result is published, a make, model or year field of
\* the form that holds a value keeps it, and a field that is empty takes the
\* value of the result when the result has one.
C16_MergeWithoutClobbering ==
    [][(formEvent' = "published" /\ vinData' # Null) =>
          /\ make # <<>> => make' = make
          /\ model # <<>> => model' = model
          /\ year # Null => year' = year
          /\ (make = <<>> /\ Truthy(vinData'[1].make)) => make' = vinData'[1].make[1]
          /\ (model = <<>> /\ Truthy(vinData'[1].model)) => model' = vinData'[1].model[1]
          /\ (year = Null /\ TruthyNumber(vinData'[1].year)) => year' = vinData'[1].year]_vars

\* C21: a settle timer runs only in a mounted hook and only for the input
\* stored now, so the unmount and every change of the input end the timer of
\* the earlier input; a lookup is dispatched only in a mounted hook, for the
\* input stored at that moment.
C21_TimerEndsWithSession ==
    [][/\ ~mounted' => ~Pending'
       /\ Pending' => timer'[1].args = toUpperCase(trim(vinToFetch'))
       /\ lastEvent'.kind = "dispatch" =>
             /\ mounted'
             /\ inflight'[Len(inflight')].vin = toUpperCase(trim(vinToFetch'))]_vars

\* the hook has been unmounted while a settle timer was pending
C21_Witness ==
    /\ lastEvent.kind = "unmount"
    /\ lastEvent.prior
    /\ ~mounted
    /\ ~Pending

\* C22: while the stored input fails the predicate the published state is
\* data = null, error = null, isLoading = false.
C22_IdleWhileInvalid ==
    (mounted /\ Len(trim(vinToFetch)) # 17) => Idle

\* C23: when no lookup is outstanding and no settle timer is pending,
\* isLoading is false; and when every lookup in flight is answered in the
\* end, isLoading = true always leads to isLoading = false.
C23_LoadingEnds ==
    /\ []((Outstanding = 0 /\ ~Pending) => ~isLoading)
    /\ (isLoading ~> ~isLoading)

\* the only lookup has thrown while isLoading was true: nothing is
\* outstanding, no timer is pending and isLoading is false
C23_Witness ==
    /\ IsResponse
    /\ lastEvent.resp.kind = "throw"
    /\ ~lastEvent.prior
    /\ Outstanding = 0
    /\ ~Pending
    /\ ~isLoading

\* C24: the child routes are rendered only while loading is false and the
\* session is not null; with loading false and no session ProtectedRoute
\* redirects to /login, and while loading is true nothing of the routes is
\* rendered.
C24_RouteProtection ==
    /\ ChildRoutesRendered => (~auth.loading /\ auth.session # Null)
    /\ (~auth.loading /\ auth.session = Null) => ProtectedRoute = "Navigate /login"
    /\ auth.loading => ProtectedRoute = "Loading"

\* the listener has taken the session away after a sign-out and the route
\* redirects to /login
C24_Witness ==
    /\ supabase.handled = "listener"
    /\ supabase.stored = Null
    /\ ~supabase.getSessionPending
    /\ ~auth.loading
    /\ auth.session = Null
    /\ ProtectedRoute = "Navigate /login"

\* C25: when the client delivers its events and getSession, signOut and the
\* profile query return, loading = true always leads to loading = false.
C25_AuthLoadingEnds == auth.loading ~> ~auth.loading

\* signing out has failed and loading is false again
C25_Witness ==
    /\ supabase.handled = "signOutError"
    /\ ~auth.loading
    /\ auth.session # Null

\* nothing of the provider is in progress
AuthQuiescent ==
    /\ supabase.events = <<>>
    /\ supabase.profileQueries = <<>>
    /\ ~supabase.signOutPending
    /\ ~supabase.getSessionPending

\* C26: when no auth event and no profile query is in progress, a profile in
\* the context belongs to the user in the context.
C26_ProfileFollowsUser ==
    (AuthQuiescent /\ auth.profile # Null) =>
        (auth.user # Null /\ auth.profile[1].id = auth.user[1])

\* C27: a delete, and an insert or update by handleFormSubmit, is started
\* from a page only while the role of the context is admin or
\* service_advisor.
C27_RoleGating ==
    [][((page.call = Null /\ page'.call # Null) \/ (~page.deleting /\ page'.deleting))
          => (role = Some("admin") \/ role = Some("service_advisor"))]_vars

C29_OcrLoadingEnds ==
    (ocr.pending = "none" /\ ocr.outcome # "none") =>
        /\ ~ocr.ocrLoading
        /\ ocr.outcome \in OcrFailures => ocr.ocrError # Null

\* the request carries a JSON object whose imageBase64 is a non-empty string
HasImage(request) ==
    /\ request.body.json
    /\ request.body.object # Null
    /\ request.body.object[1].imageBase64.type = "string"
    /\ request.body.object[1].imageBase64.val # <<>>

\* C30: the function calls the Vision API only when the key is configured,
\* for a POST whose body has a non-empty string imageBase64, and then once;
\* it answers OPTIONS with 200 'ok', a missing key with 500, another method
\* with 405, a body that cannot be parsed or without a valid imageBase64
\* with 400, a Vision response that is not OK with the status of that
\* response, and a call that throws with 500.
C30_OcrFunctionGuards ==
    edge.req # Null =>
        LET request == edge.req[1]
            called == edge.key /\ request.method = "POST" /\ HasImage(request)
        IN  /\ edge.visionCalls # <<>> => called
            /\ edge.stage = "done" =>
                  /\ edge.response # Null
                  /\ Len(edge.visionCalls) = IF called THEN 1 ELSE 0
                  /\ request.method = "OPTIONS" =>
                        edge.response[1] = [status |-> 200, body |-> "ok"]
                  /\ (request.method # "OPTIONS" /\ ~edge.key) =>
                        edge.response[1].status = 500
                  /\ (request.method \notin {"OPTIONS", "POST"} /\ edge.key) =>
                        edge.response[1].status = 405
                  /\ (request.method = "POST" /\ edge.key /\ ~HasImage(request)) =>
                        edge.response[1].status = 400
                  /\ called =>
                        /\ edge.vision # Null
                        /\ edge.vision[1].thrown => edge.response[1].status = 500
                        /\ (~edge.vision[1].thrown
                              /\ (edge.vision[1].status < 200 \/ edge.vision[1].status > 299)) =>
                              edge.response[1].status = edge.vision[1].status

\* a POST with a data URI has been sent on to the Vision API, which answered
\* 403: the function has answered 403
C30_Witness ==
    /\ edge.stage = "done"
    /\ edge.key
    /\ edge.req # Null
    /\ edge.req[1].method = "POST"
    /\ HasImage(edge.req[1])
    /\ StartsWithData(edge.req[1].body.object[1].imageBase64.val)
    /\ edge.visionCalls = <<Some(<<"a", "b">>)>>
    /\ edge.vision # Null
    /\ ~edge.vision[1].thrown
    /\ edge.vision[1].status = 403
    /\ edge.response = Some([status |-> 403, body |-> "Google Vision API request failed"])

====
